---- MODULE Spec2Model ----
(***************************************************************************)
(* pipelines::pcm2mp3 (src/src/pcm2mp3.h): a GStreamer pipeline            *)
(* appsrc ! audioconvert ! lamemp3enc ! appsink, a consumer thread that    *)
(* pulls encoded samples from the appsink and hands them to a callback,    *)
(* and the running presentation timestamp pts_ that tags every PCM buffer  *)
(* pushed into the appsrc.                                                 *)
(*                                                                         *)
(* Threads of the model: one controller thread (start, stop, destructor),  *)
(* the consumer thread spawned by start, NumPushers producer threads       *)
(* calling push_pcm_data / push_silence, and the pipeline's own streaming  *)
(* thread (encode).                                                        *)
(***************************************************************************)
EXTENDS Integers, Sequences, FiniteSets

\* ------------------------------------------------------------- bounds
NumPushers == 2      \* producer threads
MaxPushes == 2       \* calls of push_pcm_data and push_silence
MaxLen == 2          \* longest PCM buffer given to push_pcm_data, in bytes
MaxStarts == 2       \* calls of start

\* ------------------------------------------------------------- constants
\* GStreamer's GST_SECOND: nanoseconds in a second.
GST_SECOND == 1000000000

\* The producer threads; a call is made by the lowest-numbered thread that is
\* not inside one (the threads are interchangeable).
Pushers == 1 .. NumPushers
Lens == 0 .. MaxLen
\* push_silence is called for no time at all and for one millisecond.
SilenceMs == {0, 1}
\* In WideSpec the component is built for 1 Hz and 2 Hz mono 8 bit streams
\* (sample_size 1) and is given buffers of 2^k samples, up to 32 GiB.
WideConfigs ==
    { [rate |-> 1, channels |-> 1, depth |-> 8, format |-> "U8"],
      [rate |-> 2, channels |-> 1, depth |-> 8, format |-> "U8"] }
SampleExps == {0, 10, 20, 30, 33, 34, 35}
\* In SlowSpec the component may also be built for a 500 Hz stream, in which
\* a millisecond holds no sample.
SlowConfigs == { [rate |-> 500, channels |-> 1, depth |-> 16, format |-> "S16LE"] }
\* In SilenceSpec it is also called for a second and for a little over two
\* minutes, 134218 ms (32000 * 134218 = 2^32 + 8704).
LongSilenceMs == {1000, 134218}
\* The constructor's defaults, line 15.
Defaults == [rate |-> 32000, channels |-> 1, depth |-> 16, format |-> "S16LE"]

\* The stream configurations the constructor is given here: its defaults
\* (rate 32000, mono, 16 bit, "S16LE": sample_size 2, 31250 ns a sample) and a
\* stereo 8 bit stream at 44.1 kHz (sample_size 2, a rate that does not divide
\* GST_SECOND: a sample lasts 22675.7 ns).
Configs ==
    { [rate |-> 32000, channels |-> 1, depth |-> 16, format |-> "S16LE"],
      [rate |-> 44100, channels |-> 2, depth |-> 8,  format |-> "U8"] }

VARIABLES
    rate_, channels_, depth_,   \* audio parameters
    format_,                    \* std::string format_
    pipeline_,                  \* "NULL", "PLAYING" or "released" (pipeline_ == nullptr)
    processing_stop_,           \* std::atomic<bool>
    pts_,                       \* std::atomic<guint64>, as a number
    pts64,                      \* std::atomic<guint64> pts_ in all its eight bytes, for
                                \* WideSpec, whose counter outgrows the numbers of the
                                \* model checker (in the other specifications the
                                \* counter stays below 2^31 and pts_ holds it)
    joinable,                   \* processing_thread_.joinable()
    consPc,                     \* consumer thread: "none", "loop", "pull", "cb", "done"
    ctl,                        \* controller thread: where it is in stop / the destructor
    inDtor,                     \* the controller is inside ~pcm2mp3
    starts,                     \* calls of start so far
    calls,                      \* calls of push_pcm_data and push_silence so far
    pc,                         \* pc[t]: producer t is "idle", at "add" or at "handoff"
    len,                        \* len[t]: data.size() of the push producer t is in
    current_pts,                \* current_pts[t]: the local of push_pcm_data
    data,                       \* data[t]: the vector the push producer t is in was given:
                                \* "caller" (the caller's own), "silence" (the local of
                                \* push_silence) or "none" (not inside a push)
    callback,                   \* the object the consumer thread's captured reference
                                \* refers to: "none" (no thread), "alive" or "destroyed"
    srcQueue,                   \* buffers queued in the appsrc
    sinkQueue,                  \* samples queued in the appsink
    units,                      \* number of units the encoder has completed, over the whole run
    handed,                     \* history: every buffer given to gst_app_src_push_buffer
    completed,                  \* history: units the appsink completed since the last start
    delivered,                  \* history: payloads passed to the callback since the last start
    unmapped,                   \* history: units whose gst_buffer_map failed since the last start
    thrown                      \* the exception the call that returned last ended with, or "none"

vars == << rate_, channels_, depth_, format_, pipeline_, processing_stop_, pts_, pts64, joinable,
           consPc, ctl, inDtor, starts, calls, pc, len, current_pts, data, callback,
           srcQueue, sinkQueue, units, handed, completed, delivered, unmapped, thrown >>

cfgVars == << rate_, channels_, depth_, format_ >>
ctlVars == << pipeline_, processing_stop_, joinable, ctl, inDtor, starts, callback >>
consVars == << consPc, sinkQueue, delivered, unmapped >>
pushVars == << pts_, pts64, calls, pc, len, current_pts, data, handed >>

\* ------------------------------------------------------------- helpers

\* gst_util_uint64_scale(val, num, denom): floor(val * num / denom), computed
\* without an intermediate product larger than val * num would need.
gst_util_uint64_scale(val, num, denom) ==
    val * (num \div denom) + (val * (num % denom)) \div denom

\* const std::size_t sample_size = channels_ * (depth_ / 8);
sample_size == channels_ * (depth_ \div 8)

\* The duration of a buffer of n bytes in nanoseconds.
Duration(n) == gst_util_uint64_scale(n \div sample_size, GST_SECOND, rate_)

\* Unsigned integers at the width the program gives them, where that is more
\* than the model checker's integers hold: sequences of base-256 digits, the
\* least significant first. unsigned int has four of them, guint64 eight.
UIntBytes == 4
UInt64Bytes == 8

RECURSIVE ToDigits(_, _)
ToDigits(n, w) == IF w = 0 THEN << >> ELSE << n % 256 >> \o ToDigits(n \div 256, w - 1)

\* The number a digit sequence stands for (for sequences whose number fits).
RECURSIVE ToNat(_)
ToNat(d) == IF d = << >> THEN 0 ELSE Head(d) + 256 * ToNat(Tail(d))

Zeros(w) == [i \in 1 .. w |-> 0]
Widen(d, w) == d \o Zeros(w - Len(d))

\* a + b + c in as many digits as a and b have: the carry out of the last
\* digit is dropped, which is how unsigned arithmetic wraps.
RECURSIVE AddDigits(_, _, _)
AddDigits(a, b, c) ==
    IF a = << >> THEN << >>
    ELSE LET sum == Head(a) + Head(b) + c
         IN  << sum % 256 >> \o AddDigits(Tail(a), Tail(b), sum \div 256)

\* a * k + c in as many digits as a has (k below 2^23), wrapping likewise.
RECURSIVE MulSmall(_, _, _)
MulSmall(a, k, c) ==
    IF a = << >> THEN << >>
    ELSE LET prod == Head(a) * k + c
         IN  << prod % 256 >> \o MulSmall(Tail(a), k, prod \div 256)

\* a * b in as many digits as a has.
RECURSIVE MulDigits(_, _)
MulDigits(a, b) ==
    IF b = << >> THEN Zeros(Len(a))
    ELSE LET rest == MulDigits(a, Tail(b))
         IN  AddDigits(MulSmall(a, Head(b), 0),
                       << 0 >> \o SubSeq(rest, 1, Len(rest) - 1), 0)

\* Quotient and remainder of a by k (k below 2^23), the most significant
\* digit first as in long division.
RECURSIVE DivRem(_, _)
DivRem(a, k) ==
    IF a = << >> THEN [q |-> << >>, r |-> 0]
    ELSE LET high == DivRem(Tail(a), k)
             cur == high.r * 256 + Head(a)
         IN  [q |-> << cur \div k >> \o high.q, r |-> cur % k]

\* a <= b for digit sequences of the same length.
RECURSIVE LeqDigits(_, _)
LeqDigits(a, b) ==
    IF a = << >> THEN TRUE
    ELSE IF a[Len(a)] # b[Len(b)] THEN a[Len(a)] < b[Len(b)]
    ELSE LeqDigits(SubSeq(a, 1, Len(a) - 1), SubSeq(b, 1, Len(b) - 1))

\* 2^k in w digits.
Pow2(k, w) == [i \in 1 .. w |-> IF i = (k \div 8) + 1 THEN 2 ^ (k % 8) ELSE 0]

\* G_MAXUINT64
G_MAXUINT64 == [i \in 1 .. UInt64Bytes |-> 255]

\* gst_util_uint64_scale(val, num, denom) for a val of eight digits:
\* floor(val * num / denom) with the product at twice the width, and
\* G_MAXUINT64 when the quotient does not fit into a guint64.
Scale64(val, num, denom) ==
    LET prod == MulDigits(Widen(val, 2 * UInt64Bytes), ToDigits(num, UIntBytes))
        q == DivRem(prod, denom).q
    IN  IF SubSeq(q, UInt64Bytes + 1, 2 * UInt64Bytes) = Zeros(UInt64Bytes)
          THEN SubSeq(q, 1, UInt64Bytes)
          ELSE G_MAXUINT64

\* rate_ * duration_ms, line 100: a product of two unsigned int, so itself an
\* unsigned int, reduced modulo 2^32.
UIntProduct(a, b) == MulSmall(ToDigits(b, UIntBytes), a, 0)

\* The size of the silence buffer push_silence builds, lines 99-101. The
\* quotient and the size are std::size_t.
SilenceSize(duration_ms) ==
    ToNat(DivRem(UIntProduct(rate_, duration_ms), 1000).q) * sample_size

\* gst_app_src_push_buffer: the appsrc takes every buffer while the pipeline
\* is PLAYING (no end-of-stream is ever sent); an appsrc that is not started
\* may answer GST_FLOW_FLUSHING, which is what willing says.
SourceAccepts(willing) == pipeline_ = "PLAYING" \/ willing

\* ------------------------------------------------------------- Init
\* The constructor, lines 48-51, given the configuration c.
Constructed(c) ==
    /\ rate_ = c.rate
    /\ channels_ = c.channels
    /\ depth_ = c.depth
    /\ format_ = c.format
    /\ pipeline_ = "NULL"
    /\ processing_stop_ = FALSE
    /\ pts_ = 0
    /\ pts64 = Zeros(UInt64Bytes)
    /\ joinable = FALSE
    /\ consPc = "none"
    /\ ctl = "idle"
    /\ inDtor = FALSE
    /\ starts = 0
    /\ calls = 0
    /\ pc = [t \in Pushers |-> "idle"]
    /\ len = [t \in Pushers |-> 0]
    /\ current_pts = [t \in Pushers |-> 0]
    /\ data = [t \in Pushers |-> "none"]
    /\ callback = "none"
    /\ srcQueue = << >>
    /\ sinkQueue = << >>
    /\ units = 0
    /\ handed = << >>
    /\ completed = << >>
    /\ delivered = << >>
    /\ unmapped = {}
    /\ thrown = "none"

Init == \E c \in Configs : Constructed(c)

\* ------------------------------------------------------------- controller

\* Faulty variant of start: the consumer thread is spawned before the result
\* of the state change is looked at.
start_thread_first(refused) ==
    /\ ctl = "idle"
    /\ ~inDtor
    /\ ~joinable
    /\ starts < MaxStarts
    /\ starts' = starts + 1
    /\ processing_stop_' = FALSE
    /\ pipeline_' = IF refused THEN pipeline_ ELSE "PLAYING"
    /\ joinable' = TRUE
    /\ consPc' = "loop"
    /\ callback' = "alive"
    /\ completed' = << >>
    /\ delivered' = << >>
    /\ unmapped' = {}
    /\ thrown' = IF refused THEN "StateTransitionError" ELSE "none"
    /\ UNCHANGED << cfgVars, pushVars, ctl, inDtor, srcQueue, sinkQueue, units >>

\* start(callback), lines 58-85. The engine may refuse the transition to
\* PLAYING (GST_STATE_CHANGE_FAILURE): start throws and spawns no thread.
\* Assigning to a std::thread that is still joinable ends the program
\* (std::terminate), so start is only called when the handle is not joinable.
start(refused) ==
    /\ ctl = "idle"
    /\ ~inDtor
    /\ ~joinable
    /\ starts < MaxStarts
    /\ starts' = starts + 1
    /\ processing_stop_' = FALSE
    /\ IF refused
         THEN /\ thrown' = "StateTransitionError"
              /\ UNCHANGED << pipeline_, joinable, consPc, callback, completed, delivered,
                              unmapped >>
         ELSE /\ pipeline_' = "PLAYING"
              /\ joinable' = TRUE
              /\ consPc' = "loop"
              /\ callback' = "alive"
              /\ completed' = << >>
              /\ delivered' = << >>
              /\ unmapped' = {}
              /\ thrown' = "none"
    /\ UNCHANGED << cfgVars, pushVars, ctl, inDtor, srcQueue, sinkQueue, units >>

\* Faulty variant of stop: the call also clears the stored format tag.
stop_clears_format ==
    /\ ctl = "idle"
    /\ ~inDtor
    /\ processing_stop_' = TRUE
    /\ format_' = ""
    /\ IF joinable
         THEN /\ ctl' = "join"
              /\ UNCHANGED << pipeline_, srcQueue, sinkQueue >>
         ELSE /\ pipeline_' = "NULL"
              /\ srcQueue' = << >>
              /\ sinkQueue' = << >>
              /\ UNCHANGED ctl
    /\ thrown' = IF joinable THEN thrown ELSE "none"
    /\ UNCHANGED << rate_, channels_, depth_, pushVars, consPc, delivered, unmapped,
                    joinable, inDtor, starts, callback, units, completed >>

\* stop(), lines 87-95. With a joinable handle the call sets processing_stop_
\* (line 88) and waits in join() (line 90) until the consumer thread has ended;
\* with no joinable handle nobody reads the flag, there is nothing to wait for,
\* and the call runs to its end: the pipeline goes to GST_STATE_NULL, which
\* drops what the appsrc and the appsink still hold.
stop ==
    /\ ctl = "idle"
    /\ ~inDtor
    /\ processing_stop_' = TRUE
    /\ IF joinable
         THEN /\ ctl' = "join"
              /\ UNCHANGED << pipeline_, srcQueue, sinkQueue >>
         ELSE /\ pipeline_' = "NULL"
              /\ srcQueue' = << >>
              /\ sinkQueue' = << >>
              /\ UNCHANGED ctl
    /\ thrown' = IF joinable THEN thrown ELSE "none"
    /\ UNCHANGED << cfgVars, pushVars, consPc, delivered, unmapped, joinable, inDtor,
                    starts, callback, units, completed >>

\* Faulty variant of stop_join: the handle is given up without waiting for
\* the consumer thread to end.
stop_no_join ==
    /\ ctl = "join"
    /\ joinable' = FALSE
    /\ callback' = "none"
    /\ pipeline_' = "NULL"
    /\ srcQueue' = << >>
    /\ sinkQueue' = << >>
    /\ ctl' = IF inDtor THEN "cleanup" ELSE "idle"
    /\ thrown' = IF inDtor THEN thrown ELSE "none"
    /\ UNCHANGED << cfgVars, pushVars, consPc, delivered, unmapped, processing_stop_,
                    inDtor, starts, units, completed >>

\* stop(), lines 89-94, inside stop() or inside the destructor: join() returns
\* once the consumer thread has ended, then the pipeline goes to
\* GST_STATE_NULL and stop() returns.
stop_join ==
    /\ ctl = "join"
    /\ consPc = "done"
    /\ joinable' = FALSE
    /\ callback' = "none"
    /\ pipeline_' = "NULL"
    /\ srcQueue' = << >>
    /\ sinkQueue' = << >>
    /\ ctl' = IF inDtor THEN "cleanup" ELSE "idle"
    /\ thrown' = IF inDtor THEN thrown ELSE "none"
    /\ UNCHANGED << cfgVars, pushVars, consPc, delivered, unmapped, processing_stop_,
                    inDtor, starts, units, completed >>

\* Faulty variant of destroy: the destructor goes to cleanup_pipeline()
\* without calling stop().
destroy_without_stop ==
    /\ ctl = "idle"
    /\ ~inDtor
    /\ \A t \in Pushers : pc[t] = "idle"
    /\ inDtor' = TRUE
    /\ ctl' = "cleanup"
    /\ UNCHANGED << cfgVars, pushVars, consVars, pipeline_, processing_stop_, joinable,
                    starts, callback, srcQueue, units, completed, thrown >>

\* ~pcm2mp3(), lines 53-56: the destructor calls stop() and then
\* cleanup_pipeline(). The object is destroyed by its owner while no producer
\* is inside a call on it. With no joinable handle stop() runs to its end.
destroy ==
    /\ ctl = "idle"
    /\ ~inDtor
    /\ \A t \in Pushers : pc[t] = "idle"
    /\ inDtor' = TRUE
    /\ processing_stop_' = TRUE
    /\ IF joinable
         THEN /\ ctl' = "join"
              /\ UNCHANGED << pipeline_, srcQueue, sinkQueue >>
         ELSE /\ ctl' = "cleanup"
              /\ pipeline_' = "NULL"
              /\ srcQueue' = << >>
              /\ sinkQueue' = << >>
    /\ UNCHANGED << cfgVars, pushVars, consPc, delivered, unmapped, joinable, starts,
                    callback, units, completed, thrown >>

\* cleanup_pipeline(), lines 210-216, called by the destructor after stop().
cleanup_pipeline ==
    /\ ctl = "cleanup"
    /\ pipeline_' = "released"
    /\ srcQueue' = << >>
    /\ sinkQueue' = << >>
    /\ ctl' = "destroyed"
    /\ UNCHANGED << cfgVars, pushVars, processing_stop_, joinable, inDtor, starts,
                    callback, consPc, delivered, unmapped, units, completed, thrown >>

\* ------------------------------------------------------------- consumer thread

\* Faulty variant of cons_loop: while (processing_stop_).
cons_loop_inverted ==
    /\ consPc = "loop"
    /\ consPc' = IF processing_stop_ THEN "pull" ELSE "done"
    /\ UNCHANGED << cfgVars, ctlVars, pushVars, sinkQueue, delivered, unmapped,
                    srcQueue, units, completed, thrown >>

\* while (!processing_stop_), line 68.
cons_loop ==
    /\ consPc = "loop"
    /\ consPc' = IF processing_stop_ THEN "done" ELSE "pull"
    /\ UNCHANGED << cfgVars, ctlVars, pushVars, sinkQueue, delivered, unmapped,
                    srcQueue, units, completed, thrown >>

\* Lines 69-78. gst_app_sink_pull_sample blocks while the appsink is started
\* and holds no sample; it returns the oldest sample when there is one, and
\* NULL once the appsink has been stopped. A sample whose buffer maps is copied
\* and given to the callback; one whose buffer does not map is dropped.
\* Faulty variant of PullSample: the newest sample instead of the oldest.
PullNewest(q) == q[Len(q)]

\* The sample gst_app_sink_pull_sample returns, line 69: the oldest queued.
PullSample(q) == Head(q)

cons_pull(mapped) ==
    /\ consPc = "pull"
    /\ IF sinkQueue # << >>
         THEN /\ sinkQueue' = Tail(sinkQueue)
              /\ IF mapped
                   THEN /\ delivered' = Append(delivered, PullSample(sinkQueue))
                        /\ consPc' = "cb"
                        /\ UNCHANGED unmapped
                   ELSE /\ unmapped' = unmapped \cup {PullSample(sinkQueue)}
                        /\ consPc' = "loop"
                        /\ UNCHANGED delivered
         ELSE /\ pipeline_ # "PLAYING"
              /\ mapped
              /\ consPc' = "loop"
              /\ UNCHANGED << sinkQueue, delivered, unmapped >>
    /\ UNCHANGED << cfgVars, ctlVars, pushVars, srcQueue, units, completed, thrown >>

\* Lines 78-82: the callback returns, the buffer is unmapped, the sample released.
cons_cb_return ==
    /\ consPc = "cb"
    /\ consPc' = "loop"
    /\ UNCHANGED << cfgVars, ctlVars, pushVars, sinkQueue, delivered, unmapped,
                    srcQueue, units, completed, thrown >>

\* The callback object start was given is destroyed while the consumer
\* thread runs. The thread captured a reference to it ([this, &callback], line
\* 67), and start(callback) of line 233 is given a temporary std::function,
\* made from a function pointer, which dies as soon as that statement ends.
callback_destroyed ==
    /\ callback = "alive"
    /\ callback' = "destroyed"
    /\ UNCHANGED << cfgVars, pushVars, consVars, pipeline_, processing_stop_, joinable,
                    ctl, inDtor, starts, srcQueue, units, completed, thrown >>

\* callback(buf_), line 78, through a reference to a destroyed object: the
\* call may go as if the object were there (cons_cb_return) or do anything
\* else, after which the thread no longer follows its loop.
cons_cb_undefined ==
    /\ consPc = "cb"
    /\ callback = "destroyed"
    /\ consPc' = "lost"
    /\ UNCHANGED << cfgVars, ctlVars, pushVars, sinkQueue, delivered, unmapped,
                    srcQueue, units, completed, thrown >>

\* ------------------------------------------------------------- pipeline

\* The streaming thread of appsrc ! audioconvert ! lamemp3enc ! appsink
\* (linked at lines 204-205): while PLAYING it consumes the oldest queued
\* buffer, and the encoder may complete an output unit (here at most one for
\* each buffer), which the appsink queues (no max-buffers, no drop: lines
\* 196-201). Units are numbered in the order the appsink completes them.
encode(emit) ==
    /\ pipeline_ = "PLAYING"
    /\ srcQueue # << >>
    /\ srcQueue' = Tail(srcQueue)
    /\ IF emit
         THEN /\ units' = units + 1
              /\ sinkQueue' = Append(sinkQueue, units + 1)
              /\ completed' = Append(completed, units + 1)
         ELSE UNCHANGED << units, sinkQueue, completed >>
    /\ UNCHANGED << cfgVars, ctlVars, pushVars, consPc, delivered, unmapped, thrown >>

\* ------------------------------------------------------------- producers

\* Faulty variant of Aligned: the sample size forgets the channel count.
AlignedDepthOnly(n) == n % (depth_ \div 8) = 0

\* Line 117 negated: data.size() % sample_size == 0.
Aligned(n) == n % sample_size = 0

\* Faulty variant of push_pcm_data: the check for the empty buffer (lines
\* 111-113) is missing, so an empty buffer goes on to be tagged and pushed.
push_pcm_data_no_empty_check(t, n) ==
    /\ pc[t] = "idle"
    /\ ~inDtor
    /\ calls < MaxPushes
    /\ calls' = calls + 1
    /\ \A u \in Pushers : u < t => pc[u] # "idle"
    /\ IF ~Aligned(n)
         THEN /\ thrown' = "InvalidBufferSizeError"
              /\ UNCHANGED << pc, len, current_pts >>
         ELSE /\ pc' = [pc EXCEPT ![t] = "add"]
              /\ len' = [len EXCEPT ![t] = n]
              /\ current_pts' = [current_pts EXCEPT ![t] = pts_]
              /\ UNCHANGED thrown
    /\ UNCHANGED << cfgVars, ctlVars, consVars, pts_, pts64, handed, srcQueue, units,
                    completed >>

\* push_pcm_data(data), lines 109-124, with n = data.size(): the empty buffer
\* returns at once, a misaligned one throws, and otherwise the duration is
\* computed and pts_ is loaded into current_pts.
push_pcm_data(t, n) ==
    /\ pc[t] = "idle"
    /\ ~inDtor
    /\ calls < MaxPushes
    /\ calls' = calls + 1
    /\ \A u \in Pushers : u < t => pc[u] # "idle"
    /\ IF n = 0
         THEN /\ thrown' = "none"
              /\ UNCHANGED << pc, len, current_pts >>
         ELSE IF ~Aligned(n)
                THEN /\ thrown' = "InvalidBufferSizeError"
                     /\ UNCHANGED << pc, len, current_pts >>
                ELSE /\ pc' = [pc EXCEPT ![t] = "add"]
                     /\ len' = [len EXCEPT ![t] = n]
                     /\ current_pts' = [current_pts EXCEPT ![t] = pts_]
                     /\ UNCHANGED thrown
    /\ UNCHANGED << cfgVars, ctlVars, consVars, pts_, pts64, handed, srcQueue, units,
                    completed >>

\* The vector a push that has got past its checks holds on to.
Holds(t, vector) == data' = [data EXCEPT ![t] = IF pc'[t] = "idle" THEN "none" ELSE vector]

\* A caller thread calls push_pcm_data with a vector of its own, n bytes long,
\* which it keeps until the stream is over.
call_push_pcm_data(t, n) ==
    /\ push_pcm_data(t, n)
    /\ Holds(t, "caller")

\* push_silence(duration_ms), lines 97-107: the local vector silence,
\* SilenceSize(duration_ms) zero bytes, given to push_pcm_data.
push_silence(t, duration_ms) ==
    /\ push_pcm_data(t, SilenceSize(duration_ms))
    /\ Holds(t, "silence")

\* Faulty variant of AtomicAdd: pts_ = current_pts + duration, a plain store
\* of a value computed from the earlier load.
StaleAdd(t) == current_pts[t] + Duration(len[t])

\* Faulty variant of AtomicAdd: the counter advances by the byte count.
AddBytes(t) == pts_ + len[t]

\* pts_ += duration, line 125: one atomic read-modify-write of pts_.
AtomicAdd(t) == pts_ + Duration(len[t])

push_add(t) ==
    /\ pc[t] = "add"
    /\ pts_' = AtomicAdd(t)
    /\ pc' = [pc EXCEPT ![t] = "handoff"]
    /\ UNCHANGED << cfgVars, ctlVars, consVars, pts64, calls, len, current_pts, data,
                    handed, srcQueue, units, completed, thrown >>

\* Lines 127-145: the buffer wraps data without copying it (bytes names the
\* vector it points into) and with no destroy notification, is tagged
\* (current_pts, duration) and is given to gst_app_src_push_buffer; a rejected
\* buffer makes the call throw. ok records the appsrc's answer. The call
\* returns, and with it push_silence when that made the call: its local vector
\* is destroyed.
push_handoff(t, willing) ==
    LET buf == [pts |-> current_pts[t], dur |-> Duration(len[t]), len |-> len[t],
                bytes |-> data[t], ok |-> SourceAccepts(willing)]
    IN  /\ pc[t] = "handoff"
        /\ pipeline_ = "PLAYING" => willing
        /\ handed' = Append(handed, buf)
        /\ IF SourceAccepts(willing)
             THEN /\ srcQueue' = Append(srcQueue, buf)
                  /\ thrown' = "none"
             ELSE /\ thrown' = "PushError"
                  /\ UNCHANGED srcQueue
        /\ pc' = [pc EXCEPT ![t] = "idle"]
        /\ len' = [len EXCEPT ![t] = 0]
        /\ current_pts' = [current_pts EXCEPT ![t] = 0]
        /\ data' = [data EXCEPT ![t] = "none"]
        /\ UNCHANGED << cfgVars, ctlVars, consVars, pts_, pts64, calls, units, completed >>

\* push_pcm_data(data), lines 109-125, for a buffer of 2^k samples (not empty,
\* and aligned) pushed by the one producer thread there is in WideSpec, with
\* the counter at its full width: pts_ += duration wraps at 2^64. What
\* becomes of the buffer is left to the other specifications.
wide_push(k) ==
    /\ ~inDtor
    /\ calls < MaxPushes
    /\ calls' = calls + 1
    /\ LET val == Pow2(k, UInt64Bytes)
           duration == Scale64(val, GST_SECOND, rate_)
       IN  pts64' = AddDigits(pts64, duration, 0)
    /\ UNCHANGED << cfgVars, ctlVars, consVars, pts_, pc, len, current_pts, data, handed,
                    srcQueue, units, completed, thrown >>

\* ------------------------------------------------------------- specifications
Controller ==
    \/ \E refused \in BOOLEAN : start(refused)
    \/ stop
    \/ stop_join
    \/ destroy
    \/ cleanup_pipeline

Consumer ==
    \/ cons_loop
    \/ \E mapped \in BOOLEAN : cons_pull(mapped)
    \/ cons_cb_return

Pipeline == \E emit \in BOOLEAN : encode(emit)

Producer(t) ==
    \/ \E n \in Lens : call_push_pcm_data(t, n)
    \/ \E ms \in SilenceMs : push_silence(t, ms)
    \/ push_add(t)
    \/ \E willing \in BOOLEAN : push_handoff(t, willing)

Next ==
    \/ Controller
    \/ Consumer
    \/ Pipeline
    \/ \E t \in Pushers : Producer(t)

Spec == Init /\ [][Next]_vars

\* One producer thread only: every push returns before the next one is called.
SeqNext ==
    \/ Controller
    \/ Consumer
    \/ Pipeline
    \/ Producer(1)

SeqSpec == Init /\ [][SeqNext]_vars

\* The counter at its full width: the controller, the consumer thread up to
\* its first pull, and one producer thread pushing very long buffers into a
\* very slow stream.
WideInit == \E c \in WideConfigs : Constructed(c)

WideNext ==
    \/ Controller
    \/ cons_loop
    \/ \E k \in SampleExps : wide_push(k)

WideSpec == WideInit /\ [][WideNext]_vars

\* One producer thread, the component built for any of Configs or SlowConfigs.
SlowInit == \E c \in Configs \cup SlowConfigs : Constructed(c)

SlowSpec == SlowInit /\ [][SeqNext]_vars

\* One producer thread on a component built with the constructor's defaults,
\* which also asks for long stretches of silence.
SilenceInit == Constructed(Defaults)

SilenceNext ==
    \/ SeqNext
    \/ \E ms \in LongSilenceMs : push_silence(1, ms)

SilenceSpec == SilenceInit /\ [][SilenceNext]_vars

\* One producer thread, and callers that hand start a callback object they
\* do not keep (in the other specifications the callers keep it until stop()
\* has returned).
TemporaryNext ==
    \/ SeqNext
    \/ callback_destroyed
    \/ cons_cb_undefined

TemporarySpec == Init /\ [][TemporaryNext]_vars

\* The liveness properties are checked with one producer thread. Scheduling:
\* a thread that can take its next step eventually takes it. This
\* holds for the consumer thread, the pipeline's streaming thread, a producer
\* inside push_pcm_data and the controller inside stop() or the destructor.
\* Nothing obliges the callers to call start, stop, push_* or the destructor.
Fairness ==
    /\ WF_vars(Consumer)
    /\ WF_vars(Pipeline)
    /\ WF_vars(stop_join \/ cleanup_pipeline)
    /\ \A t \in Pushers :
          WF_vars(push_add(t) \/ \E willing \in BOOLEAN : push_handoff(t, willing))

FairSpec == SeqSpec /\ Fairness

\* ------------------------------------------------------------- properties

Range(s) == {s[i] : i \in DOMAIN s}

RECURSIVE SumDur(_)
SumDur(s) == IF s = << >> THEN 0 ELSE Head(s).dur + SumDur(Tail(s))

AllIdle == \A t \in Pushers : pc[t] = "idle"

\* The consumer thread does not exist or has left its loop.
ConsumerEnded == consPc \in {"none", "done"}

\* stop() has been called and has returned, and start has not been called since.
Stopped == ctl = "idle" /\ processing_stop_

\* stop() or the destructor has been called since the last start.
StopCalled == processing_stop_ \/ ctl # "idle"

RECURSIVE Gcd(_, _)
Gcd(a, b) == IF b = 0 THEN a ELSE Gcd(b, a % b)

\* (n / sample_size) x 1 second / rate, rounded down, with the fraction
\* 1 second / rate in lowest terms.
ExactDuration(n) ==
    LET g == Gcd(GST_SECOND, rate_)
    IN  ((n \div sample_size) * (GST_SECOND \div g)) \div (rate_ \div g)

\* C1: every call of stop() eventually returns.
C1_StopEventuallyReturns == (ctl = "join" /\ ~inDtor) ~> (ctl = "idle")

\* C2: the buffers handed to the Source stage carry pairwise different
\* timestamps and pairwise disjoint intervals [pts, pts + dur), and once every
\* push has returned each interval starts at 0 or where another one ends.
C2_DisjointIntervals ==
    /\ \A i, j \in DOMAIN handed :
          i < j => \/ handed[i].pts + handed[i].dur <= handed[j].pts
                   \/ handed[j].pts + handed[j].dur <= handed[i].pts
    /\ AllIdle =>
          \A i \in DOMAIN handed :
              \/ handed[i].pts = 0
              \/ \E j \in DOMAIN handed : handed[j].pts + handed[j].dur = handed[i].pts

\* C3: with pushes made one after the other (push_silence included), the first
\* buffer handed to the Source stage is tagged 0, each one is tagged with its own
\* duration, and each later one starts where the one before it ends.
C3_SequentialContinuity ==
    \A i \in DOMAIN handed :
        /\ handed[i].dur = ExactDuration(handed[i].len)
        /\ handed[i].pts = IF i = 1 THEN 0 ELSE handed[i - 1].pts + handed[i - 1].dur

C3_Witness ==
    /\ Len(handed) >= 2
    /\ handed[1].dur > 0
    /\ \E i \in DOMAIN handed : handed[i].len = SilenceSize(1)
    /\ \E i \in DOMAIN handed : handed[i].len <= MaxLen

\* C4 as stated: a push of a non-empty aligned buffer advances the counter by
\* exactly its duration and does not fail, in every lifecycle state.
C4_PushNeverFails ==
    [][\A t \in Pushers :
          /\ push_add(t) => pts_' = pts_ + ExactDuration(len[t])
          /\ (\E willing \in BOOLEAN : push_handoff(t, willing)) => thrown' = "none"]_vars

\* C4 amended: a push of a non-empty aligned buffer advances the counter by
\* exactly its duration in every lifecycle state; it returns normally when the
\* pipeline is PLAYING, and in the other states it returns normally or, the
\* counter already advanced, fails with PushError.
C4_AdvanceExact ==
    [][\A t \in Pushers :
          /\ push_add(t) => pts_' = pts_ + ExactDuration(len[t])
          /\ (\E willing \in BOOLEAN : push_handoff(t, willing)) =>
                /\ thrown' \in {"none", "PushError"}
                /\ pipeline_ = "PLAYING" => thrown' = "none"
                /\ pts_' = pts_]_vars

C4_Witness ==
    /\ AllIdle
    /\ pts_ > 0
    /\ \E i, j \in DOMAIN handed : handed[i].ok /\ ~handed[j].ok

\* C5: a push of a buffer whose length is not a multiple of sample_size fails
\* with InvalidBufferSizeError, leaves the counter as it is and hands nothing to
\* the Source stage.
C5_MisalignedRejected ==
    [][\A t \in Pushers, n \in Lens :
          (push_pcm_data(t, n) /\ n % (channels_ * (depth_ \div 8)) # 0) =>
              /\ thrown' = "InvalidBufferSizeError"
              /\ pts_' = pts_
              /\ handed' = handed
              /\ srcQueue' = srcQueue
              /\ pc' = pc]_vars

C5_Witness ==
    /\ thrown = "InvalidBufferSizeError"
    /\ pts_ > 0
    /\ Len(handed) = 1
    /\ pipeline_ = "PLAYING"

\* C6: once stop() has returned, and until start is called again, the consumer
\* thread has ended, the handle is not joinable and the callback is not invoked.
C6_StoppedMeansQuiet ==
    /\ [](Stopped => ~joinable /\ ConsumerEnded)
    /\ [][Stopped /\ Stopped' => delivered' = delivered]_vars

C6_Witness ==
    /\ Stopped
    /\ consPc = "done"
    /\ delivered # << >>

\* C7: when every push has returned, the counter is the sum of the durations
\* of all the buffers pushed (it starts at 0).
C7_NoLostAdvance == AllIdle => pts_ = SumDur(handed)

C7_Witness ==
    /\ AllIdle
    /\ Len(handed) = 2
    /\ handed[1].pts = handed[2].pts
    /\ handed[1].dur > 0

Mapped(u) == u \notin unmapped

C10_ReleaseAfterJoin ==
    /\ [](ctl \in {"cleanup", "destroyed"} \/ pipeline_ = "released"
             => ~joinable /\ ConsumerEnded)
    /\ [][pipeline_ = "released" => delivered' = delivered]_vars

C10_Witness ==
    /\ pipeline_ = "released"
    /\ consPc = "done"
    /\ delivered # << >>

\* C11: a start the engine refuses fails with StateTransitionError, spawns no
\* consumer thread and leads to no callback invocation; a stop() called while
\* no consumer thread exists returns at once; a start that succeeds spawns one
\* consumer thread, and no other one is alive then.
C11_RefusedStartSpawnsNothing ==
    [][/\ start(TRUE) =>
             /\ thrown' = "StateTransitionError"
             /\ ~joinable'
             /\ ConsumerEnded'
             /\ consPc' = consPc
             /\ delivered' = delivered
       /\ start(FALSE) =>
             /\ ConsumerEnded
             /\ joinable'
             /\ consPc' = "loop"
             /\ thrown' = "none"
       /\ (stop /\ ConsumerEnded /\ ~joinable) => (ctl' = "idle" /\ thrown' = "none")
       /\ (~joinable /\ ~joinable') => delivered' = delivered]_vars

\* start was refused, no start ever succeeded, and a later stop() has returned.
C11_Witness ==
    /\ starts = 1
    /\ consPc = "none"
    /\ Stopped
    /\ thrown = "none"

\* floor(rate x duration_ms / 1000) x sample_size, with the product taken in
\* the integers.
ExactSilenceSize(duration_ms) ==
    (rate_ * (duration_ms \div 1000) + (rate_ * (duration_ms % 1000)) \div 1000)
        * sample_size

\* C12: push_silence(duration_ms) makes one push_pcm_data call with its own
\* vector of exactly floor(rate x duration_ms / 1000) x sample_size bytes, the
\* product being the mathematical one.
C12_SilenceSizeExact ==
    [][\A t \in Pushers, ms \in SilenceMs \cup LongSilenceMs :
          (push_silence(t, ms) /\ ExactSilenceSize(ms) > 0) =>
              /\ pc'[t] = "add"
              /\ data'[t] = "silence"
              /\ len'[t] = ExactSilenceSize(ms)]_vars

\* C13: no operation ever lowers the timestamp counter.
C13_CounterMonotonic ==
    [][LeqDigits(pts64, pts64') /\ pts_ <= pts_']_vars

\* C14: a push of the empty buffer, and a push_silence of too short a time
\* to hold one sample, returns normally, leaves the counter as it is and hands
\* nothing to the Source stage, in every state.
C14_EmptyPushIsNoOp ==
    [][\A t \in Pushers :
          /\ push_pcm_data(t, 0) =>
                /\ thrown' = "none"
                /\ pts_' = pts_
                /\ handed' = handed
                /\ srcQueue' = srcQueue
                /\ pc' = pc
          /\ \A ms \in SilenceMs :
                (push_silence(t, ms) /\ rate_ * ms < 1000) =>
                    /\ thrown' = "none"
                    /\ pts_' = pts_
                    /\ handed' = handed
                    /\ srcQueue' = srcQueue
                    /\ pc' = pc]_vars

\* In a stream too slow for a millisecond to hold a sample, one call has been
\* made and has returned, with no exception and nothing handed over, and
\* neither start nor stop nor the destructor was called.
C14_Witness ==
    /\ rate_ < 1000
    /\ calls = 1
    /\ AllIdle
    /\ handed = << >>
    /\ thrown = "none"
    /\ starts = 0
    /\ ~StopCalled

C16_FormatEmptyAfterStop ==
    (rate_ = 32000 /\ Stopped /\ consPc = "done") => format_ = ""

Accepted(b) == b.ok

\* The bytes a queued buffer points into are still there: a caller's vector
\* is, the local vector of a push_silence that has returned is not.
BytesAlive(b) == b.bytes = "caller"

\* C17: every buffer queued in the Source stage points into bytes that are
\* still alive.
C17_QueuedBytesAlive == \A i \in DOMAIN srcQueue : BytesAlive(srcQueue[i])

\* C18: a push the Source stage rejects leaves the counter as it was when the
\* call began, so every buffer the Source stage accepted is tagged with the sum
\* of the durations of the buffers accepted before it.
C18_RejectedPushLeavesNoGap ==
    \A i \in DOMAIN handed :
        handed[i].ok =>
            handed[i].pts = SumDur(SelectSeq(SubSeq(handed, 1, i - 1), Accepted))

RECURSIVE SumLen(_)
SumLen(s) == IF s = << >> THEN 0 ELSE Head(s).len + SumLen(Tail(s))

\* C19: after aligned buffers pushed one after the other from counter 0, the
\* counter is the duration of all their samples together, computed in one step.
C19_NoDrift == AllIdle => pts_ = ExactDuration(SumLen(handed))

\* C20: whenever the consumer thread is inside a callback invocation, the
\* callback object it invokes is alive, also when the caller destroyed the
\* object it gave to start.
C20_CallbackAlive == consPc = "cb" => callback = "alive"

====
